---- MODULE Spec2Model ----
(***************************************************************************)
(* Model of the pre-commit hook of golang-best-practices-check             *)
(* (src/main.go): the main goroutine that filters the files given on the   *)
(* command line, sends each eligible one to the local model server and     *)
(* reports the verdicts, and the goroutine that launches `ollama serve`.   *)
(***************************************************************************)
EXTENDS Integers, Sequences, FiniteSets, TLC

\* ------------------------------------------------------------------------
\* Bounds of the model and constants of the program
\* ------------------------------------------------------------------------

\* Every argument list of 0..MaxShort names is explored.
MaxShort == 1
\* Long argument lists have MaxFiles .. MaxFiles + Excess entries: every
\* pair of names at the two ends, files that are no Go files between.
Excess == 1

\* main.go:37  len(files) > 20
MaxFiles == 20
\* main.go:53  utf8.RuneCountInString(string(content)) > 8000
MaxChars == 8000

\* ------------------------------------------------------------------------
\* File names (strings as sequences of characters) and file contents
\* ------------------------------------------------------------------------

GoExt == <<".", "g", "o">>

MainGo   == <<"m", ".", "g", "o">>        \* m.go
DotGo    == <<".", "g", "o">>             \* .go   (the suffix itself)
NoDot    == <<"g", "o">>                  \* go    (shorter than the suffix)
BackupGo == <<"m", ".", "g", "o", "~">>   \* m.go~ (contains, does not end in, .go)

Names == {MainGo, DotGo, NoDot, BackupGo}

\* strings.HasSuffix(s, suffix)
HasSuffix(s, suffix) ==
    /\ Len(s) >= Len(suffix)
    /\ SubSeq(s, Len(s) - Len(suffix) + 1, Len(s)) = suffix

\* strings.Contains(s, sub)
Contains(s, sub) ==
    \E k \in 1..(Len(s) - Len(sub) + 1) : SubSeq(s, k, k + Len(sub) - 1) = sub

IsGoFileContains(file) == Contains(file, GoExt)

\* main.go:43  strings.HasSuffix(file, ".go")
IsGoFile(file) == HasSuffix(file, GoExt)

\* A file content is a sequence of runs; a run is n runes that each take w
\* bytes in UTF-8.
Run(w, n) == [w |-> w, n |-> n]

Contents ==
    { <<Run(1, MaxChars)>>,                  \* 8000 one-byte runes
      <<Run(1, MaxChars), Run(1, 1)>>,       \* 8001 one-byte runes
      <<Run(2, MaxChars \div 2), Run(2, 1)>> }  \* 4001 runes, 8002 bytes

RECURSIVE RuneCountInString(_)
\* utf8.RuneCountInString
RuneCountInString(c) ==
    IF c = <<>> THEN 0 ELSE Head(c).n + RuneCountInString(Tail(c))

RECURSIVE ByteLen(_)
\* len(content)
ByteLen(c) ==
    IF c = <<>> THEN 0 ELSE Head(c).w * Head(c).n + ByteLen(Tail(c))

TooLongInclusive(content) == RuneCountInString(content) >= MaxChars

\* main.go:53
TooLong(content) == RuneCountInString(content) > MaxChars

TooManyFilesOffByOne(fs) == Len(fs) > MaxFiles + 1

\* main.go:37
TooManyFiles(fs) == Len(fs) > MaxFiles

\* ------------------------------------------------------------------------
\* JSON texts and encoding/json.Unmarshal
\* ------------------------------------------------------------------------

\* A parsed JSON value: t is its kind, b the value of a boolean, s the
\* (unescaped) value of a string, m the members of an object in the order
\* of the text (a member's value is a value without members).
Val(t, b, s) == [t |-> t, b |-> b, s |-> s]
Doc(t, b, s, m) == [t |-> t, b |-> b, s |-> s, m |-> m]
Mem(k, v) == [k |-> k, v |-> v]

JInvalid == Doc("invalid", FALSE, "", <<>>)
JNull == Doc("null", FALSE, "", <<>>)
JObj(m) == Doc("obj", FALSE, "", m)
JStr(s) == Val("str", FALSE, s)
JBool(b) == Val("bool", b, "")
JNum == Val("num", FALSE, "")

\* The texts the verdict string can hold.
InPass == "{\"follows_best_practices\":true,\"suggestions\":\"\"}"
InFail == "{\"follows_best_practices\":false,\"suggestions\":\"use gofmt\"}"
InEmptyObj == "{}"
InBadType == "{\"follows_best_practices\":\"yes\",\"suggestions\":\"s\"}"
InGarbage == "oops"

\* The response bodies the server can send.
BodyPass == "{\"response\":\"{\\\"follows_best_practices\\\":true,\\\"suggestions\\\":\\\"\\\"}\"}"
BodyFail == "{\"response\":\"{\\\"follows_best_practices\\\":false,\\\"suggestions\\\":\\\"use gofmt\\\"}\"}"
BodyEmptyObj == "{\"response\":\"{}\"}"
BodyBadType == "{\"response\":\"{\\\"follows_best_practices\\\":\\\"yes\\\",\\\"suggestions\\\":\\\"s\\\"}\"}"
BodyGarbageIn == "{\"response\":\"oops\"}"
BodyNoResponse == "{\"error\":\"model not found\"}"
BodyNumResponse == "{\"response\":5}"
BodyHtml == "<html>502</html>"

Bodies ==
    { BodyPass, BodyFail, BodyEmptyObj, BodyBadType, BodyGarbageIn,
      BodyNoResponse, BodyNumResponse, BodyHtml }

\* The JSON value a text denotes, or JInvalid when the text is not JSON
\* (the scanner of encoding/json, on the texts of the model).
ParseJSON(text) ==
    CASE text = InPass ->
           JObj(<<Mem("follows_best_practices", JBool(TRUE)),
                  Mem("suggestions", JStr(""))>>)
      [] text = InFail ->
           JObj(<<Mem("follows_best_practices", JBool(FALSE)),
                  Mem("suggestions", JStr("use gofmt"))>>)
      [] text = InEmptyObj -> JObj(<<>>)
      [] text = "null" -> JNull
      [] text = InBadType ->
           JObj(<<Mem("follows_best_practices", JStr("yes")),
                  Mem("suggestions", JStr("s"))>>)
      [] text = BodyPass -> JObj(<<Mem("response", JStr(InPass))>>)
      [] text = BodyFail -> JObj(<<Mem("response", JStr(InFail))>>)
      [] text = BodyEmptyObj -> JObj(<<Mem("response", JStr(InEmptyObj))>>)
      [] text = BodyBadType -> JObj(<<Mem("response", JStr(InBadType))>>)
      [] text = BodyGarbageIn -> JObj(<<Mem("response", JStr(InGarbage))>>)
      [] text = BodyNoResponse ->
           JObj(<<Mem("error", JStr("model not found"))>>)
      [] text = BodyNumResponse -> JObj(<<Mem("response", JNum)>>)
      [] OTHER -> JInvalid           \* "", "oops", "<html>502</html>"

\* The fields of the two structs after decoding, with the error of the
\* decoding ("" for nil).
Envelope(response, err) == [Response |-> response, err |-> err]
Verdict(follows, suggestions) ==
    [FollowsBestPractices |-> follows, Suggestions |-> suggestions]
Decoded(v, err) == [v |-> v, err |-> err]

ZeroVerdict == Verdict(FALSE, "")

RECURSIVE EnvelopeMembers(_, _)
\* json.Unmarshal into ollamaResponse, member by member: an unknown key is
\* ignored, null leaves the field alone, a value that is no string is an
\* UnmarshalTypeError (the first one is returned, decoding goes on).
EnvelopeMembers(m, acc) ==
    IF m = <<>> THEN acc
    ELSE LET k == Head(m).k
             v == Head(m).v
             next == IF k # "response" \/ v.t = "null" THEN acc
                     ELSE IF v.t = "str" THEN Envelope(v.s, acc.err)
                     ELSE Envelope(acc.Response,
                                   IF acc.err = "" THEN "type" ELSE acc.err)
         IN  EnvelopeMembers(Tail(m), next)

\* main.go:147-151  json.Unmarshal(body, oResp)
UnmarshalEnvelope(text) ==
    LET d == ParseJSON(text)
    IN  CASE d.t = "invalid" -> Envelope("", "syntax")
          [] d.t = "null" -> Envelope("", "")
          [] d.t = "obj" -> EnvelopeMembers(d.m, Envelope("", ""))
          [] OTHER -> Envelope("", "type")

RECURSIVE VerdictMembers(_, _)
\* json.Unmarshal into LLMResponse, member by member.
VerdictMembers(m, acc) ==
    IF m = <<>> THEN acc
    ELSE LET k == Head(m).k
             v == Head(m).v
             bad == Decoded(acc.v, IF acc.err = "" THEN "type" ELSE acc.err)
             next ==
               IF v.t = "null" THEN acc
               ELSE IF k = "follows_best_practices"
                    THEN IF v.t = "bool"
                         THEN Decoded(Verdict(v.b, acc.v.Suggestions), acc.err)
                         ELSE bad
               ELSE IF k = "suggestions"
                    THEN IF v.t = "str"
                         THEN Decoded(Verdict(acc.v.FollowsBestPractices, v.s),
                                      acc.err)
                         ELSE bad
               ELSE acc
         IN  VerdictMembers(Tail(m), next)

UnmarshalVerdictStrict(text) ==
    LET d == ParseJSON(text)
    IN  IF d.t = "obj"
           /\ \E i \in 1..Len(d.m) : d.m[i].k = "follows_best_practices"
        THEN VerdictMembers(d.m, Decoded(ZeroVerdict, ""))
        ELSE Decoded(ZeroVerdict, "missing")

\* main.go:155-160  json.Unmarshal([]byte(oResp.Response), llmResponse)
UnmarshalVerdict(text) ==
    LET d == ParseJSON(text)
    IN  CASE d.t = "invalid" -> Decoded(ZeroVerdict, "syntax")
          [] d.t = "null" -> Decoded(ZeroVerdict, "")
          [] d.t = "obj" -> VerdictMembers(d.m, Decoded(ZeroVerdict, ""))
          [] OTHER -> Decoded(ZeroVerdict, "type")

\* The answers the HTTP round trip can have: client.Do fails, reading the
\* body fails, or a body arrives.
Reply(k, body) == [k |-> k, body |-> body]

Replies ==
    {Reply("doErr", ""), Reply("readErr", "")}
        \cup {Reply("body", b) : b \in Bodies}

\* main.go:135-162  what queryLLM returns for an answer: the verdict, or
\* the error (the verdict pointer is then nil).
QueryResult(reply) ==
    IF reply.k = "doErr" THEN Decoded(ZeroVerdict, "error running ollama command")
    ELSE IF reply.k = "readErr"
    THEN Decoded(ZeroVerdict, "error reading response body")
    ELSE LET o == UnmarshalEnvelope(reply.body)
         IN  IF o.err # ""
             THEN Decoded(ZeroVerdict, "error unmarshalling response")
             ELSE LET l == UnmarshalVerdict(o.Response)
                  IN  IF l.err # ""
                      THEN Decoded(ZeroVerdict,
                                   "error unmarshalling LLM response")
                      ELSE Decoded(l.v, "")

\* ------------------------------------------------------------------------
\* State
\* ------------------------------------------------------------------------

VARIABLES
    files,      \* os.Args[1:]
    pc,         \* position of the main goroutine
    idx,        \* index of the file the loop is at (1-based)
    content,    \* content of the file read in this iteration
    warn,       \* main.go:35
    out,        \* lines written to standard output, in order
    reads,      \* what os.ReadFile returned, in order
    reqs,       \* HTTP requests issued, in order
    rets,       \* the answers of the server and what queryLLM returned
    inflight,   \* number of HTTP requests issued and not yet returned
    launcher,   \* startOllama goroutine / the subprocess
    cancelled,  \* cancel() of main.go:24 has been called
    deferred,   \* functions deferred by main
    exitCode    \* argument of os.Exit, -1 while the process runs

vars == <<files, pc, idx, content, warn, out, reads, reqs, rets, inflight,
          launcher, cancelled, deferred, exitCode>>

\* A line of output: kind, index and name of the file it is about (0 and
\* <<>> when it is about no file), and the text it carries.
Line(k, i, f, s) == [k |-> k, i |-> i, f |-> f, s |-> s]
Plain(k) == Line(k, 0, <<>>, "")

Request(i, f, c) == [i |-> i, f |-> f, c |-> c]
Return(i, reply, r) == [i |-> i, reply |-> reply, v |-> r.v, err |-> r.err]
ReadResult(i, ok, c) == [i |-> i, ok |-> ok, c |-> c]

ShortLists == UNION {[1..n -> Names] : n \in 0..MaxShort}

\* A long list: any two names at its ends, names that are no Go files
\* between them.
LongList(a, b, n) ==
    [i \in 1..n |-> IF i = 1 THEN a ELSE IF i = n THEN b ELSE NoDot]

LongLists ==
    {LongList(a, b, MaxFiles + k) : a \in Names, b \in Names, k \in 0..Excess}

ArgLists == ShortLists \cup LongLists

Init ==
    /\ files \in ArgLists
    /\ pc = "start"
    /\ idx = 0
    /\ content = <<>>
    /\ warn = FALSE
    /\ out = <<>>
    /\ reads = <<>>
    /\ reqs = <<>>
    /\ rets = <<>>
    /\ inflight = 0
    /\ launcher = "none"
    /\ cancelled = FALSE
    /\ deferred = <<>>
    /\ exitCode = -1

\* os.Exit(code): the process ends at once; deferred functions are not run.
OsExit(code) ==
    /\ pc' = "exited"
    /\ exitCode' = code
    /\ UNCHANGED <<cancelled, deferred>>

\* ------------------------------------------------------------------------
\* The main goroutine
\* ------------------------------------------------------------------------

\* main.go:27-30
NoFiles ==
    /\ pc = "start"
    /\ Len(files) = 0
    /\ out' = Append(out, Plain("NoFiles"))
    /\ OsExit(0)
    /\ UNCHANGED <<files, idx, content, warn, reads, reqs, rets, inflight,
                   launcher>>

\* main.go:27, 32-35  go startOllama(ctx); defer cancel(); warn := false
Spawn ==
    /\ pc = "start"
    /\ Len(files) # 0
    /\ launcher' = "spawned"
    /\ deferred' = <<"cancel">> \o deferred
    /\ warn' = FALSE
    /\ pc' = "count"
    /\ UNCHANGED <<files, idx, content, out, reads, reqs, rets, inflight,
                   cancelled, exitCode>>

\* main.go:37-40
TooMany ==
    /\ pc = "count"
    /\ TooManyFiles(files)
    /\ out' = Append(out, Plain("TooMany"))
    /\ OsExit(0)
    /\ UNCHANGED <<files, idx, content, warn, reads, reqs, rets, inflight,
                   launcher>>

\* main.go:37, 42  the loop is entered
EnterLoop ==
    /\ pc = "count"
    /\ ~TooManyFiles(files)
    /\ idx' = 1
    /\ pc' = "loop"
    /\ UNCHANGED <<files, content, warn, out, reads, reqs, rets, inflight,
                   launcher, cancelled, deferred, exitCode>>

\* continue: on to the next file, or out of the loop after the last one
Continue ==
    /\ idx' = idx + 1
    /\ pc' = "loop"
    /\ content' = <<>>

ContinueAsBreak ==
    /\ idx' = Len(files) + 1
    /\ pc' = "loop"
    /\ content' = <<>>

ContinueAsRetry ==
    /\ idx' = idx
    /\ pc' = "query"
    /\ content' = content

\* main.go:50, 61  continue after a failed read or a failed query
ContinueAfterError == Continue

\* main.go:42-45  a file that is no Go file is passed over
SkipExtension ==
    /\ pc = "loop"
    /\ idx <= Len(files)
    /\ ~IsGoFile(files[idx])
    /\ Continue
    /\ UNCHANGED <<files, warn, out, reads, reqs, rets, inflight, launcher,
                   cancelled, deferred, exitCode>>

\* main.go:42-43  a Go file goes on to be read
TakeFile ==
    /\ pc = "loop"
    /\ idx <= Len(files)
    /\ IsGoFile(files[idx])
    /\ pc' = "read"
    /\ UNCHANGED <<files, idx, content, warn, out, reads, reqs, rets,
                   inflight, launcher, cancelled, deferred, exitCode>>

\* main.go:47-51  os.ReadFile fails
ReadFails ==
    /\ pc = "read"
    /\ reads' = Append(reads, ReadResult(idx, FALSE, <<>>))
    /\ out' = Append(out, Line("ReadErr", idx, files[idx], ""))
    /\ ContinueAfterError
    /\ UNCHANGED <<files, warn, reqs, rets, inflight, launcher, cancelled,
                   deferred, exitCode>>

\* main.go:47  os.ReadFile returns the content
ReadOk ==
    /\ pc = "read"
    /\ \E c \in Contents :
         /\ content' = c
         /\ reads' = Append(reads, ReadResult(idx, TRUE, c))
    /\ pc' = "size"
    /\ UNCHANGED <<files, idx, warn, out, reqs, rets, inflight, launcher,
                   cancelled, deferred, exitCode>>

\* main.go:53-56
SkipTooLong ==
    /\ pc = "size"
    /\ TooLong(content)
    /\ out' = Append(out, Line("TooLong", idx, files[idx], ""))
    /\ Continue
    /\ UNCHANGED <<files, warn, reads, reqs, rets, inflight, launcher,
                   cancelled, deferred, exitCode>>

\* main.go:53, 58
SizeOk ==
    /\ pc = "size"
    /\ ~TooLong(content)
    /\ pc' = "query"
    /\ UNCHANGED <<files, idx, content, warn, out, reads, reqs, rets,
                   inflight, launcher, cancelled, deferred, exitCode>>

\* main.go:58, 104-135  queryLLM builds the request and client.Do sends it
SendRequest ==
    /\ pc = "query"
    /\ reqs' = Append(reqs, Request(idx, files[idx], content))
    /\ inflight' = inflight + 1
    /\ pc' = "wait"
    /\ UNCHANGED <<files, idx, content, warn, out, reads, rets, launcher,
                   cancelled, deferred, exitCode>>

FailingInverted(v) == v.FollowsBestPractices

\* main.go:64
Failing(v) == ~v.FollowsBestPractices

\* main.go:66-68
Report(i, f, v) ==
    << Line("WarnHead", i, f, ""),
       Line("Suggestions", i, f, v.Suggestions),
       Line("Separator", i, f, "") >>

\* main.go:135-162, 58-62  the round trip ends and queryLLM returns an error
QueryFails ==
    /\ pc = "wait"
    /\ \E reply \in Replies :
         LET r == QueryResult(reply)
         IN  /\ r.err # ""
             /\ rets' = Append(rets, Return(idx, reply, r))
             /\ out' = Append(out, Line("QueryErr", idx, files[idx], r.err))
    /\ inflight' = inflight - 1
    /\ ContinueAfterError
    /\ UNCHANGED <<files, warn, reads, reqs, launcher, cancelled, deferred,
                   exitCode>>

\* main.go:135-162, 58-69  the round trip ends and queryLLM returns a verdict
QueryReturns ==
    /\ pc = "wait"
    /\ \E reply \in Replies :
         LET r == QueryResult(reply)
         IN  /\ r.err = ""
             /\ rets' = Append(rets, Return(idx, reply, r))
             /\ IF Failing(r.v)
                THEN /\ warn' = TRUE
                     /\ out' = out \o Report(idx, files[idx], r.v)
                ELSE UNCHANGED <<warn, out>>
    /\ inflight' = inflight - 1
    /\ Continue
    /\ UNCHANGED <<files, reads, reqs, launcher, cancelled, deferred,
                   exitCode>>

AggregateAlwaysClear(w) == Plain("AllClear")

\* main.go:72-76
Aggregate(w) == IF w THEN Plain("AggWarn") ELSE Plain("AllClear")

ExitCodeBlocking(w) == IF w THEN 1 ELSE 0

\* main.go:77  os.Exit(0)
FinalExitCode(w) == 0

\* main.go:42, 72-76  after the last file
PrintAggregate ==
    /\ pc = "loop"
    /\ idx > Len(files)
    /\ out' = Append(out, Aggregate(warn))
    /\ pc' = "finish"
    /\ UNCHANGED <<files, idx, content, warn, reads, reqs, rets, inflight,
                   launcher, cancelled, deferred, exitCode>>

\* main.go:77
Finish ==
    /\ pc = "finish"
    /\ OsExit(FinalExitCode(warn))
    /\ UNCHANGED <<files, idx, content, warn, out, reads, reqs, rets,
                   inflight, launcher>>

\* ------------------------------------------------------------------------
\* The launcher goroutine (startOllama); it runs while the process does
\* ------------------------------------------------------------------------

\* main.go:81-84  cmd.Run starts the subprocess
LauncherStarts ==
    /\ pc # "exited"
    /\ launcher = "spawned"
    /\ launcher' = "running"
    /\ UNCHANGED <<files, pc, idx, content, warn, out, reads, reqs, rets,
                   inflight, cancelled, deferred, exitCode>>

\* main.go:84-87  cmd.Run returns an error: the subprocess could not be
\* started, or it ended with a failure
LauncherFails ==
    /\ pc # "exited"
    /\ launcher \in {"spawned", "running"}
    /\ launcher' = "failed"
    /\ out' = Append(out, Plain("LaunchErr"))
    /\ UNCHANGED <<files, pc, idx, content, warn, reads, reqs, rets,
                   inflight, cancelled, deferred, exitCode>>

Main ==
    \/ NoFiles \/ Spawn \/ TooMany \/ EnterLoop
    \/ SkipExtension \/ TakeFile \/ ReadFails \/ ReadOk
    \/ SkipTooLong \/ SizeOk \/ SendRequest
    \/ QueryFails \/ QueryReturns \/ PrintAggregate \/ Finish

Launcher == LauncherStarts \/ LauncherFails

Next == Main \/ Launcher

Spec == Init /\ [][Next]_vars

\* ------------------------------------------------------------------------
\* Vocabulary of the properties
\* ------------------------------------------------------------------------

Indices == 1..Len(files)
EndsInGo(f) == HasSuffix(f, GoExt)
HasLine(k, i) == \E p \in 1..Len(out) : out[p].k = k /\ out[p].i = i
LinesAbout(i) == {p \in 1..Len(out) : out[p].i = i}
Requested(i) == \E q \in 1..Len(reqs) : reqs[q].i = i
ReadsOf(i) == {p \in 1..Len(reads) : reads[p].i = i}
RetsOf(i) == {q \in 1..Len(rets) : rets[q].i = i}
FailingVerdicts ==
    {q \in 1..Len(rets) : rets[q].err = "" /\ ~rets[q].v.FollowsBestPractices}
PassingVerdicts ==
    {q \in 1..Len(rets) : rets[q].err = "" /\ rets[q].v.FollowsBestPractices}
AggregateLines == {p \in 1..Len(out) : out[p].k \in {"AggWarn", "AllClear"}}
WithinLimit == Len(files) \in 1..MaxFiles
\* the run went through the loop and ended
NormalEnd == pc = "exited" /\ WithinLimit
\* the lines the main goroutine wrote
MainOut == SelectSeq(out, LAMBDA l : l.k # "LaunchErr")

\* ------------------------------------------------------------------------
\* C1: with more than 20 files no HTTP request is issued and no file is
\* read, whatever the names are; the program only prints and exits.
\* ------------------------------------------------------------------------
C1_NoWorkOverLimit ==
    Len(files) > MaxFiles =>
        /\ reqs = <<>>
        /\ reads = <<>>
        /\ inflight = 0
        /\ idx = 0
        /\ pc \in {"start", "count", "exited"}

C1_Witness ==
    /\ pc = "exited"
    /\ Len(files) > MaxFiles
    /\ EndsInGo(files[1])
    /\ EndsInGo(files[Len(files)])

\* ------------------------------------------------------------------------
\* C2: a file whose path does not end in .go is never read, never named by
\* a request and never mentioned in the output, and the files after it are
\* still handled.
\* ------------------------------------------------------------------------
C2_NonGoNeverSent ==
    /\ \A q \in 1..Len(reqs) : EndsInGo(reqs[q].f)
    /\ \A i \in Indices :
         ~EndsInGo(files[i]) =>
            /\ ~Requested(i)
            /\ ReadsOf(i) = {}
            /\ LinesAbout(i) = {}
            /\ (idx = i => pc = "loop")
    /\ NormalEnd =>
         \A j \in Indices : EndsInGo(files[j]) => ReadsOf(j) # {}

C2_Witness ==
    /\ NormalEnd
    /\ \E i, j \in Indices :
         /\ i < j
         /\ files[i] = BackupGo
         /\ EndsInGo(files[j])
         /\ Requested(j)

\* ------------------------------------------------------------------------
\* C3: a file read with more than 8000 characters is skipped with a message
\* and no request; one with 8000 characters or fewer is sent with its
\* content.
\* ------------------------------------------------------------------------
C3_SizeLimit ==
    /\ \A q \in 1..Len(reqs) : RuneCountInString(reqs[q].c) <= MaxChars
    /\ \A p \in 1..Len(reads) :
         LET rd == reads[p]
         IN  (rd.ok /\ rd.i < idx) =>
                IF RuneCountInString(rd.c) > MaxChars
                THEN /\ HasLine("TooLong", rd.i)
                     /\ ~Requested(rd.i)
                ELSE /\ ~HasLine("TooLong", rd.i)
                     /\ \E q \in 1..Len(reqs) :
                          reqs[q] = Request(rd.i, files[rd.i], rd.c)

C3_Witness ==
    /\ pc = "exited"
    /\ \E q \in 1..Len(reqs) :
         \/ RuneCountInString(reqs[q].c) = MaxChars
         \/ ByteLen(reqs[q].c) > MaxChars
    /\ \E p \in 1..Len(reads) :
         /\ RuneCountInString(reads[p].c) = MaxChars + 1
         /\ HasLine("TooLong", reads[p].i)

\* ------------------------------------------------------------------------
\* C4: a failed read or a failed query (request, body, envelope, verdict
\* string) only skips its file with one message; it does not set the
\* warning flag, and what is printed for the other files depends on their
\* own results alone.
\* ------------------------------------------------------------------------

\* What the loop prints for file i, from the results of file i alone.
ExpectedLines(i) ==
    LET f == files[i]
    IN  IF ~EndsInGo(f) THEN <<>>
        ELSE IF \E p \in ReadsOf(i) : ~reads[p].ok
        THEN <<Line("ReadErr", i, f, "")>>
        ELSE IF \E p \in ReadsOf(i) : RuneCountInString(reads[p].c) > MaxChars
        THEN <<Line("TooLong", i, f, "")>>
        ELSE IF \E q \in RetsOf(i) : rets[q].err # ""
        THEN <<Line("QueryErr", i, f,
                    rets[CHOOSE q \in RetsOf(i) : rets[q].err # ""].err)>>
        ELSE IF \E q \in RetsOf(i) : ~rets[q].v.FollowsBestPractices
        THEN LET v == rets[CHOOSE q \in RetsOf(i) : TRUE].v
             IN  << Line("WarnHead", i, f, ""),
                    Line("Suggestions", i, f, v.Suggestions),
                    Line("Separator", i, f, "") >>
        ELSE <<>>

RECURSIVE ExpectedOut(_)
ExpectedOut(n) ==
    IF n = 0 THEN <<>> ELSE ExpectedOut(n - 1) \o ExpectedLines(n)

C4_ErrorsNonFatal ==
    /\ \A p \in 1..Len(reads) :
         ~reads[p].ok =>
            /\ HasLine("ReadErr", reads[p].i)
            /\ Cardinality(LinesAbout(reads[p].i)) = 1
            /\ reads[p].i < idx
    /\ \A q \in 1..Len(rets) :
         rets[q].err # "" =>
            /\ \E p \in 1..Len(out) :
                 out[p] = Line("QueryErr", rets[q].i, files[rets[q].i],
                               rets[q].err)
            /\ Cardinality(LinesAbout(rets[q].i)) = 1
            /\ rets[q].i < idx
    /\ warn <=> FailingVerdicts # {}
    /\ pc = "loop" => MainOut = ExpectedOut(idx - 1)
    /\ NormalEnd =>
         /\ idx = Len(files) + 1
         /\ \A j \in Indices : EndsInGo(files[j]) => ReadsOf(j) # {}

C4_Witness ==
    /\ NormalEnd
    /\ \E p \in 1..Len(reads) : reads[p].i = 1 /\ ~reads[p].ok
    /\ \E q \in FailingVerdicts : rets[q].i = Len(files)

\* ------------------------------------------------------------------------
\* C5: a file is reported, with the suggestions of its verdict, exactly
\* when queryLLM returned a verdict for it that says it does not follow
\* best practices; a passing verdict prints nothing for the file; a failing
\* verdict makes the final line the warning.
\* ------------------------------------------------------------------------
C5_WarnIffFailingVerdict ==
    /\ \A i \in Indices :
         HasLine("WarnHead", i) <=> (\E q \in FailingVerdicts : rets[q].i = i)
    /\ \A q \in FailingVerdicts :
         \E p \in 1..(Len(out) - 2) :
            /\ out[p] = Line("WarnHead", rets[q].i, files[rets[q].i], "")
            /\ out[p + 1] = Line("Suggestions", rets[q].i, files[rets[q].i],
                                 rets[q].v.Suggestions)
            /\ out[p + 2].k = "Separator"
    /\ \A q \in PassingVerdicts : LinesAbout(rets[q].i) = {}
    /\ (pc \in {"finish", "exited"} /\ FailingVerdicts # {}) =>
          \E p \in 1..Len(out) : out[p].k = "AggWarn"

C5_Witness ==
    /\ pc = "exited"
    /\ \E q \in FailingVerdicts :
         /\ rets[q].v.Suggestions = "use gofmt"
         /\ \E p \in 1..Len(out) :
              out[p].k = "Suggestions" /\ out[p].s = "use gofmt"
    /\ PassingVerdicts # {}

\* ------------------------------------------------------------------------
\* C6: a run with 1 to 20 files prints exactly one aggregate line, after
\* the last file was handled: the warning if some verdict was failing, the
\* all-clear otherwise (also when no file was analysed).
\* ------------------------------------------------------------------------
C6_OneAggregateLine ==
    /\ Cardinality(AggregateLines) <= 1
    /\ AggregateLines # {} =>
         /\ WithinLimit
         /\ idx = Len(files) + 1
         /\ pc \in {"finish", "exited"}
         /\ \A p \in AggregateLines :
              \A q \in 1..Len(out) : q > p => out[q].i = 0
    /\ (pc \in {"finish", "exited"} /\ WithinLimit) =>
         /\ Cardinality(AggregateLines) = 1
         /\ \A p \in AggregateLines :
              out[p].k = "AggWarn" <=> FailingVerdicts # {}

C6_Witness ==
    /\ NormalEnd
    /\ \E p \in 1..Len(out) : out[p].k = "AllClear"
    /\ Len(reads) = 2
    /\ rets # <<>>
    /\ PassingVerdicts = {}

\* ------------------------------------------------------------------------
\* C7: when the program ends after the launcher was started, the context
\* has been cancelled and the subprocess is no longer running.
\* ------------------------------------------------------------------------
C7_CancelledAtExit ==
    (pc = "exited" /\ launcher # "none") =>
        (cancelled /\ launcher # "running")

\* ------------------------------------------------------------------------
\* C8: the process exits with code 0 on every path; with no files it exits
\* before the launcher is started; a launcher failure is printed and the
\* main goroutine still runs to one of its own exits.
\* ------------------------------------------------------------------------
C8_AlwaysExitZero ==
    /\ exitCode \in {-1, 0}
    /\ pc = "exited" <=> exitCode = 0
    /\ Len(files) = 0 => launcher = "none"
    /\ launcher = "failed" => \E p \in 1..Len(out) : out[p].k = "LaunchErr"
    /\ pc = "exited" =>
         /\ Len(files) = 0 => MainOut = <<Plain("NoFiles")>>
         /\ Len(files) > MaxFiles => MainOut = <<Plain("TooMany")>>
         /\ WithinLimit => idx = Len(files) + 1 /\ AggregateLines # {}

C8_Witness ==
    /\ NormalEnd
    /\ exitCode = 0
    /\ warn
    /\ launcher = "failed"
    /\ out[1].k = "LaunchErr"
    /\ \E q \in 1..Len(rets) : rets[q].err = "error running ollama command"

\* ------------------------------------------------------------------------
\* C9: at most one request is outstanding and the main goroutine waits for
\* it; requests follow the order of the arguments, one per eligible file
\* (ends in .go, read, at most 8000 characters, list within the limit) and
\* none for any other; a request is issued only after the one before it has
\* returned.
\* ------------------------------------------------------------------------
C9_SerializedNoRetry ==
    /\ inflight \in {0, 1}
    /\ inflight = 1 <=> pc = "wait"
    /\ Len(reqs) = Len(rets) + inflight
    /\ \A q \in 1..Len(rets) : rets[q].i = reqs[q].i
    /\ \A q1, q2 \in 1..Len(reqs) : q1 < q2 => reqs[q1].i < reqs[q2].i
    /\ \A q \in 1..Len(reqs) :
         LET i == reqs[q].i
         IN  /\ WithinLimit
             /\ i \in Indices
             /\ EndsInGo(files[i])
             /\ reqs[q].f = files[i]
             /\ \E p \in ReadsOf(i) :
                  /\ reads[p].ok
                  /\ reads[p].c = reqs[q].c
                  /\ RuneCountInString(reads[p].c) <= MaxChars
    /\ \A p \in 1..Len(reads) :
         (reads[p].ok /\ RuneCountInString(reads[p].c) <= MaxChars
            /\ reads[p].i < idx) => Requested(reads[p].i)
    /\ \A i \in Indices : Cardinality(ReadsOf(i)) <= 1

C9_Witness ==
    /\ NormalEnd
    /\ Len(reqs) = 2
    /\ rets[1].err # ""
    /\ rets[2].err = ""

\* ------------------------------------------------------------------------
\* C10: a verdict string that is valid JSON without follows_best_practices
\* ("{}") gives the verdict (false, ""), so the file is reported and the
\* final line is the warning; the verdict string fails to decode exactly
\* when it is no JSON for the verdict (also the empty string of an envelope
\* without response), and then the file is skipped with an error.
\* ------------------------------------------------------------------------
C10_MissingFieldIsFailing ==
    \A q \in 1..Len(rets) :
       LET r == rets[q]
       IN  /\ (r.reply.k = "body" /\ r.reply.body = BodyEmptyObj) =>
                /\ r.err = ""
                /\ r.v = [FollowsBestPractices |-> FALSE, Suggestions |-> ""]
                /\ HasLine("WarnHead", r.i)
                /\ \E p \in 1..Len(out) :
                     out[p] = Line("Suggestions", r.i, files[r.i], "")
                /\ warn
                /\ pc \in {"finish", "exited"} =>
                     \E p \in 1..Len(out) : out[p].k = "AggWarn"
           /\ r.err = "error unmarshalling LLM response" <=>
                (r.reply.k = "body" /\ r.reply.body \in
                    {BodyNoResponse, BodyGarbageIn, BodyBadType})
           /\ r.err = "error unmarshalling LLM response" =>
                /\ HasLine("QueryErr", r.i)
                /\ ~HasLine("WarnHead", r.i)

C10_Witness ==
    /\ pc = "exited"
    /\ \E q \in 1..Len(rets) : rets[q].reply.body = BodyEmptyObj
    /\ \E q \in 1..Len(rets) : rets[q].reply.body = BodyNoResponse
    /\ \E p \in 1..Len(out) : out[p].k = "AggWarn"

====
